---- MODULE Spec2Model ----
(***************************************************************************)
(* Per-user memory store of cf_ai_social_determinant_insights.             *)
(*                                                                         *)
(* The repository carries three revisions of the Durable Object class     *)
(* that owns one MemoryRecord per user identity:                           *)
(*   "UserMemoryDO"       the first draft (memory = DEFAULT_MEMORY)        *)
(*   "UserContextDO"      the strict class (storage errors propagate)      *)
(*   "UserContextDO_fb"   the class with the in-memory fallback            *)
(* deepMerge is the same function in all of them.  JSON documents are      *)
(* modelled as tagged values so that deepMerge can inspect types the way   *)
(* the code does (typeof / Array.isArray / null / undefined).              *)
(*                                                                         *)
(* Specifications:                                                         *)
(*   Spec         requests to the objects, storage working                 *)
(*   SpecFault    Spec with storage calls that throw                       *)
(*   SpecFirst    Spec with every request arriving before its identity     *)
(*                has a record                                             *)
(*   SpecUntyped  Spec with request bodies that are no Partial<UserMemory> *)
(*   SpecPair     Spec with patches for both identities                    *)
(*   SpecCaller   Spec with a caller that writes into the record it got    *)
(*   SpecShape    Spec with patches that put objects, null and undefined   *)
(*                where the record holds other shapes                      *)
(*   SpecWorker   the Worker's handlers (/chat, /risk, /context) and the   *)
(*                requests they send to the objects                        *)
(*   SpecAnalytics  logAnalytics and GET /analytics over the namespace     *)
(*   SpecPage     the chat page (script.js) with the Worker as environment *)
(***************************************************************************)
EXTENDS Integers, Sequences, FiniteSets, TLC

\* ---------------------------------------------------------------- bounds
MaxClock == 2
MaxOps == 2

\* ------------------------------------------------------------ JSON values
Undefined == [t |-> "undefined"]
Null == [t |-> "null"]
Thrown == [t |-> "throw"]
Arr(s) == [t |-> "array", a |-> s]
Num(n) == [t |-> "number", n |-> n]
Obj(f) == [t |-> "object", o |-> f]
Str(s) == [t |-> "string", s |-> s]

IsPlainObject(v) == v.t = "object"
Keys(v) == IF v.t = "object" THEN DOMAIN v.o ELSE {}
Get(v, k) == IF k \in Keys(v) THEN v.o[k] ELSE Undefined

\* JSON.parse(JSON.stringify(v)): keys whose value is undefined are dropped,
\* nested documents are rebuilt; JSON.parse(undefined) throws.
RECURSIVE JSONCopy(_)
JSONCopy(v) ==
  CASE v.t = "undefined" -> Thrown
    [] v.t = "object" ->
         LET K == {k \in DOMAIN v.o : v.o[k].t # "undefined"}
         IN  Obj([k \in K |-> JSONCopy(v.o[k])])
    [] v.t = "array" -> Arr([i \in 1..Len(v.a) |-> v.a[i]])
    [] OTHER -> v

\* The structured clone storage.put / storage.get apply to a value: a deep
\* copy that keeps every key.
RECURSIVE StructuredClone(_)
StructuredClone(v) ==
  CASE v.t = "object" -> Obj([k \in DOMAIN v.o |-> StructuredClone(v.o[k])])
    [] v.t = "array" -> Arr([i \in 1..Len(v.a) |-> v.a[i]])
    [] OTHER -> v

\* ------------------------------------------------------------- deepMerge
\* deepMerge(target, source): a JSON copy of target, then for every key of
\* source whose value is not undefined: a plain object is merged recursively
\* into result[key], anything else is assigned.
\* Mutant: nested objects of the patch are assigned wholesale (a shallow
\* merge), so the siblings of a patched field are lost.
deepMerge_Shallow(target, source) ==
  LET result == JSONCopy(target)
      K == {k \in Keys(source) : source.o[k].t # "undefined"}
  IN  IF result.t # "object" THEN Thrown
      ELSE Obj([k \in Keys(result) \cup K |->
                  IF k \in K THEN source.o[k] ELSE result.o[k]])

\* Mutant: an array of the patch is appended to the stored array.
RECURSIVE deepMerge_Append(_, _)
deepMerge_Append(target, source) ==
  LET result == JSONCopy(target)
      K == {k \in Keys(source) : source.o[k].t # "undefined"}
      sub(k) == IF IsPlainObject(source.o[k])
                THEN deepMerge_Append(Get(result, k), source.o[k])
                ELSE IF source.o[k].t = "array" /\ Get(result, k).t = "array"
                     THEN Arr(Get(result, k).a \o source.o[k].a)
                     ELSE source.o[k]
  IN  IF result.t # "object" THEN Thrown
      ELSE IF \E k \in K : sub(k) = Thrown THEN Thrown
      ELSE Obj([k \in Keys(result) \cup K |->
                  IF k \in K THEN sub(k) ELSE result.o[k]])

RECURSIVE deepMerge(_, _)
deepMerge(target, source) ==
  LET result == JSONCopy(target)
      K == {k \in Keys(source) : source.o[k].t # "undefined"}
      sub(k) == IF IsPlainObject(source.o[k])
                THEN deepMerge(Get(result, k), source.o[k])
                ELSE source.o[k]
  IN  IF result = Thrown THEN Thrown
      ELSE IF K = {} THEN result
      ELSE IF \E k \in K : sub(k) = Thrown THEN Thrown
      \* a property set on an array is no part of its JSON form
      ELSE IF result.t = "array" THEN result
      \* null[key], and a property set on a primitive in strict mode, throw
      ELSE IF result.t # "object" THEN Thrown
      ELSE Obj([k \in Keys(result) \cup K |->
                  IF k \in K THEN sub(k) ELSE result.o[k]])

\* Mutant: deepMerge writes into its target instead of into a copy.
TargetAfterMerge_InPlace(target, source) == deepMerge(target, source)

\* What deepMerge leaves in the object passed as target: the object itself,
\* because every write goes to the JSON copy made first.
TargetAfterMerge(target, source) == target

\* ---------------------------------------------------------------- schema
Users == {"U1", "U2"}
Builds == {"UserMemoryDO", "UserContextDO", "UserContextDO_fb"}
Procs == 1..MaxOps

EmptyObj == Obj([k \in {} |-> Undefined])
Meta(c, l) == Obj([createdAt |-> Num(c), lastActive |-> Num(l)])

\* The module-level constant, evaluated once, when the module is loaded at
\* time t.
DefaultMemoryAt(t) ==
  Obj([profile |-> Obj([riskFactors |-> Arr(<<>>), conditions |-> Arr(<<>>),
                        interests |-> Arr(<<>>)]),
       conversation |-> Obj([recentQuestions |-> Arr(<<>>),
                             keyInsights |-> Arr(<<>>)]),
       meta |-> Meta(t, t)])

\* The fields of a record, by path.
At(v, path) == Get(Get(v, path[1]), path[2])

RiskFactors == <<"profile", "riskFactors">>
Conditions == <<"profile", "conditions">>
Interests == <<"profile", "interests">>
RecentQuestions == <<"conversation", "recentQuestions">>
KeyInsights == <<"conversation", "keyInsights">>
CreatedAt == <<"meta", "createdAt">>
LastActive == <<"meta", "lastActive">>
SeqPaths == {RiskFactors, Conditions, Interests, RecentQuestions, KeyInsights}
LeafPaths == SeqPaths \cup {CreatedAt, LastActive}

\* Mutant: all user names resolve to one Durable Object.
idFromName_Constant(name) == <<"do", "U1">>

\* env.USER_CONTEXT.idFromName(userId): the id of the object named userId,
\* distinct names giving distinct objects.
idFromName(name) == <<"do", name>>

\* idFromName takes any string, the empty one included.
Names == Users \cup {""}
DOs == {idFromName(u) : u \in Names}

\* Patches of the shape Partial<UserMemory>.
P_empty == EmptyObj
P_riskX == Obj([profile |-> Obj([riskFactors |-> Arr(<<"X">>)])])
P_condY == Obj([profile |-> Obj([conditions |-> Arr(<<"Y">>)])])
P_q1 == Obj([conversation |-> Obj([recentQuestions |-> Arr(<<"Q1">>)])])
P_q2 == Obj([conversation |-> Obj([recentQuestions |-> Arr(<<"Q2">>)])])
P_meta == Obj([meta |-> Meta(0, 0)])
Patches == {P_empty, P_riskX, P_condY, P_q1, P_q2, P_meta}

\* The requests sent to the objects: gets for both identities, patches for
\* the first (the second identity's record is created and read only).
Requests ==
  [user : Users, op : {"get"}, patch : {EmptyObj}]
    \cup [user : {"U1"}, op : {"patch"}, patch : Patches]

\* ----------------------------------------------------------------- state
VARIABLES
  build,           \* which revision of the class is deployed
  now,             \* Date.now()
  DEFAULT_MEMORY,  \* the module-level template object
  storage,         \* per Durable Object: the value under key "memory"
  gate,            \* per Durable Object: the request holding its input gate
  pc,              \* per request: position in the handler
  req,             \* per request: [user, op, patch]
  memory,          \* per request: the local record (memory / updated)
  aliased,         \* per request: top-level keys of memory shared with DEFAULT_MEMORY
  nops,            \* requests received so far
  returned,        \* the request answered last and the body it was given
  h_before,        \* history: the stored value when the request first read
  h_faulted,       \* history: a storage call of the request failed
  h_persisted,     \* history: the request's last put reached storage
  h_lastPatched,   \* history: per object, the last patch result still current
  hpc,             \* per Worker handler: position in handleChat / handleRisk / ...
  hreq,            \* per Worker handler: the HTTP request it serves
  hmem,            \* per Worker handler: its local memory / updatedMemory
  hresp,           \* per Worker handler: the HTTP response it gave
  hai,             \* per Worker handler: the prompt it built and the model's answer
  kv,              \* the ANALYTICS namespace: key -> value
  log,             \* per logAnalytics call: position, event and locals
  stats,           \* the GET /analytics handler: position and locals
  page,            \* the chat page: globals of script.js and the DOM state it sets
  calls            \* the chat page: per sendMessage / submitRiskFactors call, its fetch

vars == <<build, now, DEFAULT_MEMORY, storage, gate, pc, req, memory, aliased,
          nops, returned, h_before, h_faulted, h_persisted, h_lastPatched,
          hpc, hreq, hmem, hresp, hai, kv, log, stats, page, calls>>

\* The state of the Worker's handlers; the handler numbered p sends its
\* requests to the objects as request p.
analytics == <<kv, log, stats>>
client == <<page, calls>>
worker == <<hpc, hreq, hmem, hresp, hai, analytics, client>>

NoReq == [user |-> "U1", op |-> "none", patch |-> EmptyObj]
ErrorResponse == [t |-> "error"]
NoReturn == [req |-> NoReq, body |-> Undefined]
NotRead == [t |-> "notread"]
NoHttp == [route |-> "none", userId |-> "", message |-> "",
           riskFactors |-> Undefined, conditions |-> Undefined]

\* The events logAnalytics is called with and the counter keys it keeps.
Events == {"chat", "risk_update"}
CountKey(e) == <<"count", e>>
CountKeys == {CountKey(e) : e \in Events}
EventKey(e, t) == <<"analytics", e, t>>
KvKeys == CountKeys \cup {EventKey(e, t) : e \in Events, t \in 1..MaxClock}
NoCall == [pc |-> "none", event |-> "chat", timestamp |-> 0,
           currentCount |-> Undefined]
NoStats == [pc |-> "none", chatCount |-> Undefined,
            riskUpdateCount |-> Undefined, response |-> Undefined]

\* The page after DOMContentLoaded's getOrCreateSession(): the first
\* session's id in the cookie and in currentUserId, nothing displayed, and
\* fetchUserContext() waiting for its response.  Session ids are numbered
\* in the order generateUserId() makes them.
NoTags == [of |-> 0, tags |-> <<>>]
PageLoaded ==
  [currentUserId |-> 1, cookie |-> 1, currentMemory |-> Null,
   riskFactorsDisplay |-> NoTags, conditionsDisplay |-> NoTags,
   sendBtnDisabled |-> FALSE, loadingShown |-> FALSE, riskModalShown |-> FALSE,
   contextFetch |-> [pc |-> "inflight", userId |-> 1]]
NoFetch == [pc |-> "none", kind |-> "chat", userId |-> 0]

DO(p) == idFromName(req[p].user)

Init ==
  /\ build \in Builds
  /\ now = 1
  /\ DEFAULT_MEMORY = DefaultMemoryAt(1)
  /\ storage = [d \in DOs |-> Undefined]
  /\ gate = [d \in DOs |-> 0]
  /\ pc = [p \in Procs |-> "idle"]
  /\ req = [p \in Procs |-> NoReq]
  /\ memory = [p \in Procs |-> Undefined]
  /\ aliased = [p \in Procs |-> {}]
  /\ nops = 0
  /\ returned = NoReturn
  /\ h_before = [p \in Procs |-> NotRead]
  /\ h_faulted = [p \in Procs |-> FALSE]
  /\ h_persisted = [p \in Procs |-> FALSE]
  /\ h_lastPatched = [d \in DOs |-> Undefined]
  /\ hpc = [p \in Procs |-> "none"]
  /\ hreq = [p \in Procs |-> NoHttp]
  /\ hmem = [p \in Procs |-> Undefined]
  /\ hresp = [p \in Procs |-> Undefined]
  /\ hai = [p \in Procs |-> Undefined]
  /\ kv = [k \in KvKeys |-> Undefined]
  /\ log = [c \in Procs |-> NoCall]
  /\ stats = NoStats
  /\ page = PageLoaded
  /\ calls = [c \in Procs |-> NoFetch]

\* Date.now() at a storage await's return: a value not below the last one
\* read (the clock advances while the handler waits; it never goes back).
DateNow == now..MaxClock

\* stub.fetch(GET|POST /memory) reaches the object of user u; the handler
\* starts and (for POST) awaits request.json().  Requests are numbered in
\* the order they arrive.
Request(p, u, op, patch) ==
  /\ pc[p] = "idle"
  /\ p = nops + 1
  /\ nops' = nops + 1
  /\ req' = [req EXCEPT ![p] = [user |-> u, op |-> op, patch |-> patch]]
  /\ pc' = [pc EXCEPT ![p] = "fetch"]
  /\ UNCHANGED <<build, now, DEFAULT_MEMORY, storage, gate, memory, aliased,
                 returned, h_before, h_faulted, h_persisted, h_lastPatched>>
  /\ UNCHANGED worker

\* Mutant: one gate for all objects.
InputGateOpen_Global(d, p) == \A e \in DOs : gate[e] \in {0, p}

\* Mutant: storage awaits let other requests of the same object run.
InputGateOpen_Always(d, p) == TRUE

\* The input gate of a Durable Object: while a request waits for a storage
\* operation, no other event is delivered to the object.
InputGateOpen(d, p) == gate[d] \in {0, p}

\* Mutant: the first draft's creation in every class.
NewMemory_Template(b, t) == DEFAULT_MEMORY

\* The record built when storage holds none.
NewMemory(b, t) ==
  IF b = "UserMemoryDO"
  THEN DEFAULT_MEMORY
  ELSE Obj([k \in Keys(DEFAULT_MEMORY) \cup {"meta"} |->
              IF k = "meta" THEN Meta(t, t) ELSE DEFAULT_MEMORY.o[k]])

\* The top-level keys under which that record shares objects with the template.
NewMemoryAliases(b) ==
  IF b = "UserMemoryDO" THEN Keys(DEFAULT_MEMORY)
  ELSE Keys(DEFAULT_MEMORY) \ {"meta"}

\* The positions at which a Worker handler assigns the response it awaits
\* (memory = await memRes.json(), updatedMemory = await updateRes.json(), ...).
AwaitsJson == {"memRes", "updateRes", "riskRes", "ctxRes"}

\* The handler of request p returns body: its locals are gone and the input
\* gate it held is open.  A Worker handler that awaits the response has it.
Return(p, body) ==
  /\ returned' = [req |-> req[p], body |-> body]
  /\ pc' = [pc EXCEPT ![p] = "done"]
  /\ gate' = [gate EXCEPT ![DO(p)] = IF gate[DO(p)] = p THEN 0 ELSE gate[DO(p)]]
  /\ memory' = [memory EXCEPT ![p] = Undefined]
  /\ aliased' = [aliased EXCEPT ![p] = {}]
  /\ h_before' = [h_before EXCEPT ![p] = NotRead]
  /\ hmem' = [hmem EXCEPT ![p] = IF hpc[p] \in AwaitsJson THEN body ELSE @]
  /\ UNCHANGED <<req, hpc, hreq, hresp, hai, analytics, client>>

\* Mutant: the update stamps createdAt as well.
SetLastActive_Both(updated, t) ==
  IF updated = Thrown \/ ~IsPlainObject(updated) THEN Thrown
  ELSE IF Get(updated, "meta").t # "object" THEN Thrown
  ELSE Obj([k \in Keys(updated) |->
              IF k = "meta" THEN Meta(t, t) ELSE updated.o[k]])

\* updated.meta.lastActive = t; a property set on undefined or null throws,
\* one set on an array is no part of its JSON form.
SetLastActive(updated, t) ==
  IF updated = Thrown \/ ~IsPlainObject(updated) THEN Thrown
  ELSE LET m == Get(updated, "meta")
       IN  CASE m.t = "object" ->
                  Obj([k \in Keys(updated) |->
                         IF k = "meta"
                         THEN Obj([j \in Keys(m) \cup {"lastActive"} |->
                                     IF j = "lastActive" THEN Num(t) ELSE m.o[j]])
                         ELSE updated.o[k]])
             [] m.t = "array" -> updated
             [] OTHER -> Thrown

\* getMemory: let memory = await storage.get("memory")
getMemory_get(p) ==
  /\ pc[p] = "fetch"
  /\ InputGateOpen(DO(p), p)
  /\ gate' = [gate EXCEPT ![DO(p)] = p]
  /\ memory' = [memory EXCEPT ![p] = StructuredClone(storage[DO(p)])]
  /\ h_before' = [h_before EXCEPT ![p] = storage[DO(p)]]
  /\ pc' = [pc EXCEPT ![p] =
              IF storage[DO(p)] = Undefined THEN "create" ELSE "have"]
  /\ UNCHANGED <<build, now, DEFAULT_MEMORY, storage, req, aliased, nops,
                 returned, h_faulted, h_persisted, h_lastPatched>>
  /\ UNCHANGED worker

\* getMemory: if (!memory) { memory = ...; await storage.put("memory", memory) }
getMemory_create(p) ==
  /\ pc[p] = "create"
  /\ now' \in DateNow
  /\ memory' = [memory EXCEPT ![p] = NewMemory(build, now')]
  /\ aliased' = [aliased EXCEPT ![p] = NewMemoryAliases(build)]
  /\ storage' = [storage EXCEPT ![DO(p)] = StructuredClone(memory'[p])]
  /\ h_lastPatched' = [h_lastPatched EXCEPT ![DO(p)] = Undefined]
  /\ pc' = [pc EXCEPT ![p] = "have"]
  /\ UNCHANGED <<build, DEFAULT_MEMORY, gate, req, nops, returned,
                 h_before, h_faulted, h_persisted>>
  /\ UNCHANGED worker

\* Mutant: a get that records the access in meta.lastActive.
fetch_GET_Touch(p) ==
  /\ pc[p] = "have"
  /\ req[p].op = "get"
  /\ now' \in DateNow
  /\ storage' = [storage EXCEPT ![DO(p)] =
                   StructuredClone(SetLastActive(memory[p], now'))]
  /\ Return(p, JSONCopy(SetLastActive(memory[p], now')))
  /\ UNCHANGED <<build, DEFAULT_MEMORY, nops, h_faulted, h_persisted,
                 h_lastPatched>>

\* fetch, GET /memory: return new Response(JSON.stringify(memory))
fetch_GET(p) ==
  /\ pc[p] = "have"
  /\ req[p].op = "get"
  /\ Return(p, JSONCopy(memory[p]))
  /\ UNCHANGED <<build, now, DEFAULT_MEMORY, storage, nops, h_faulted,
                 h_persisted, h_lastPatched>>

\* Mutant: the time stamp is written before the merge, so the patch wins.
Updated_StampFirst(current, patch, t) ==
  deepMerge(SetLastActive(current, t), patch)

\* updateMemory: updated = deepMerge(current, patch); updated.meta.lastActive = now
Updated(current, patch, t) == SetLastActive(deepMerge(current, patch), t)

\* Mutant: the record is put before the time stamp is set on it.
PutValue_BeforeStamp(current, patch, t) ==
  StructuredClone(deepMerge(current, patch))

\* updateMemory: what storage.put("memory", updated) writes.
PutValue(current, patch, t) == StructuredClone(Updated(current, patch, t))

\* The template after an update that merged into a record sharing objects
\* with it.
TemplateAfter(p) ==
  LET after == TargetAfterMerge(memory[p], req[p].patch)
  IN  IF aliased[p] = {} \/ after = Thrown THEN DEFAULT_MEMORY
      ELSE Obj([k \in Keys(DEFAULT_MEMORY) |->
                  IF k \in aliased[p] /\ k \in Keys(after)
                  THEN after.o[k] ELSE DEFAULT_MEMORY.o[k]])

\* updateMemory after getMemory returned: merge, stamp, put.  An exception
\* leaves updateMemory and is answered by fetch's catch with status 500.
updateMemory_put(p) ==
  /\ pc[p] = "have"
  /\ req[p].op = "patch"
  /\ now' \in DateNow
  /\ LET updated == Updated(memory[p], req[p].patch, now')
     IN  IF updated = Thrown
         THEN /\ Return(p, ErrorResponse)
              /\ UNCHANGED <<storage, DEFAULT_MEMORY, h_persisted,
                             h_lastPatched>>
         ELSE /\ storage' = [storage EXCEPT ![DO(p)] =
                               PutValue(memory[p], req[p].patch, now')]
              /\ memory' = [memory EXCEPT ![p] = updated]
              /\ aliased' = [aliased EXCEPT ![p] = {}]
              /\ DEFAULT_MEMORY' = TemplateAfter(p)
              /\ h_persisted' = [h_persisted EXCEPT ![p] = TRUE]
              /\ h_lastPatched' = [h_lastPatched EXCEPT ![DO(p)] = Undefined]
              /\ pc' = [pc EXCEPT ![p] = "put"]
              /\ UNCHANGED <<returned, req, gate, h_before>>
              /\ UNCHANGED worker
  /\ UNCHANGED <<build, nops, h_faulted>>

\* updateMemory returns updated; fetch, POST /memory:
\* return new Response(JSON.stringify(updated))
fetch_POST(p) ==
  /\ pc[p] = "put"
  /\ Return(p, JSONCopy(memory[p]))
  /\ h_lastPatched' = [h_lastPatched EXCEPT ![DO(p)] = JSONCopy(memory[p])]
  /\ UNCHANGED <<build, now, DEFAULT_MEMORY, storage, nops, h_faulted,
                 h_persisted>>

\* ------------------------------------------------------- storage failures
\* await storage.get throws, or the storage API is missing.  The fallback
\* class logs and returns a fresh default; in the other classes the
\* exception leaves the handler.
getMemory_get_fail(p) ==
  /\ pc[p] = "fetch"
  /\ InputGateOpen(DO(p), p)
  /\ h_faulted' = [h_faulted EXCEPT ![p] = TRUE]
  /\ now' \in DateNow
  /\ IF build = "UserContextDO_fb"
     THEN /\ gate' = [gate EXCEPT ![DO(p)] = p]
          /\ memory' = [memory EXCEPT ![p] = NewMemory(build, now')]
          /\ aliased' = [aliased EXCEPT ![p] = NewMemoryAliases(build)]
          /\ h_before' = [h_before EXCEPT ![p] = storage[DO(p)]]
          /\ pc' = [pc EXCEPT ![p] = "have"]
          /\ UNCHANGED <<req, returned>>
          /\ UNCHANGED worker
     ELSE Return(p, ErrorResponse)
  /\ UNCHANGED <<build, DEFAULT_MEMORY, storage, nops, h_persisted,
                 h_lastPatched>>

\* The put of a newly built record throws: same two outcomes.
getMemory_create_fail(p) ==
  /\ pc[p] = "create"
  /\ h_faulted' = [h_faulted EXCEPT ![p] = TRUE]
  /\ now' \in DateNow
  /\ IF build = "UserContextDO_fb"
     THEN /\ memory' = [memory EXCEPT ![p] = NewMemory(build, now')]
          /\ aliased' = [aliased EXCEPT ![p] = NewMemoryAliases(build)]
          /\ pc' = [pc EXCEPT ![p] = "have"]
          /\ UNCHANGED <<req, returned, gate, h_before>>
          /\ UNCHANGED worker
     ELSE Return(p, ErrorResponse)
  /\ UNCHANGED <<build, DEFAULT_MEMORY, storage, nops, h_persisted,
                 h_lastPatched>>

\* The put of the merged record throws, or the storage API is missing.  The
\* fallback class logs and goes on to return updated.
updateMemory_put_fail(p) ==
  /\ pc[p] = "have"
  /\ req[p].op = "patch"
  /\ now' \in DateNow
  /\ Updated(memory[p], req[p].patch, now') # Thrown
  /\ h_faulted' = [h_faulted EXCEPT ![p] = TRUE]
  /\ IF build = "UserContextDO_fb"
     THEN /\ memory' = [memory EXCEPT ![p] =
                          Updated(memory[p], req[p].patch, now')]
          /\ aliased' = [aliased EXCEPT ![p] = {}]
          /\ pc' = [pc EXCEPT ![p] = "put"]
          /\ UNCHANGED <<req, returned, gate, h_before>>
          /\ UNCHANGED worker
     ELSE Return(p, ErrorResponse)
  /\ UNCHANGED <<build, DEFAULT_MEMORY, storage, nops, h_persisted,
                 h_lastPatched>>

Next ==
  \/ \E p \in Procs, r \in Requests : Request(p, r.user, r.op, r.patch)
  \/ \E p \in Procs : getMemory_get(p)
  \/ \E p \in Procs : getMemory_create(p)
  \/ \E p \in Procs : fetch_GET(p)
  \/ \E p \in Procs : updateMemory_put(p)
  \/ \E p \in Procs : fetch_POST(p)

Spec == Init /\ [][Next]_vars

NextFault ==
  \/ Next
  \/ \E p \in Procs : getMemory_get_fail(p)
  \/ \E p \in Procs : getMemory_create_fail(p)
  \/ \E p \in Procs : updateMemory_put_fail(p)

SpecFault == Init /\ [][NextFault]_vars

\* -------------------------------------------------------------- Worker
\* The variables of the objects, which the Worker's handlers reach through
\* stub.fetch only.
store == <<build, now, DEFAULT_MEMORY, storage, gate, pc, req, memory, aliased,
           nops, returned, h_before, h_faulted, h_persisted, h_lastPatched>>

\* HTTP requests to the Worker: POST /chat {userId, message},
\* POST /risk {userId, riskFactors, conditions}, GET /context?userId=.
Http(route, userId, message, riskFactors) ==
  [route |-> route, userId |-> userId, message |-> message,
   riskFactors |-> riskFactors, conditions |-> Undefined]

\* POST /risk {userId, riskFactors, conditions}, either list left out or not.
HttpRisk(userId, riskFactors, conditions) ==
  [Http("risk", userId, "", riskFactors) EXCEPT !.conditions = conditions]

HttpRequests ==
  {Http("chat", "", "Q1", Undefined), Http("chat", "U1", "Q1", Undefined),
   Http("chat", "U1", "Q2", Undefined),
   Http("risk", "", "", Arr(<<"X">>)), Http("risk", "U1", "", Arr(<<"X">>)),
   HttpRisk("U1", Undefined, Arr(<<"Y">>)),
   Http("context", "", "", Undefined), Http("context", "U1", "", Undefined),
   Http("context", "U2", "", Undefined)}

\* Mutant: no handler looks at userId.
MissingUserId_Never(userId) == FALSE

\* !userId
MissingUserId(userId) == userId = ""

\* if (!userId || !message) in handleChat, if (!userId) in the others.
Rejected(r) ==
  MissingUserId(r.userId) \/ (r.route = "chat" /\ r.message = "")

\* [...(mem.a?.b || []), x]
Appended(mem, path, x) ==
  LET cur == At(mem, path)
  IN  Arr((IF cur.t = "array" THEN cur.a ELSE <<>>) \o <<x>>)

\* Mutant: a list the request leaves out is left out of the patch.
OrEmpty_Omit(v) == v

\* riskFactors || []
OrEmpty(v) == IF v.t = "array" THEN v ELSE Arr(<<>>)

\* Texts, as sequences of characters.
Text(n) == [i \in 1..n |-> "a"]

\* aiResponse.response.substring(0, 150)
InsightMax == 150

\* Mutant: the whole answer is kept as the insight.
Insight_Whole(text) == text

Insight(text) ==
  SubSeq(text, 1, IF Len(text) < InsightMax THEN Len(text) ELSE InsightMax)

\* What generateMedicalInsight returns: the model's answer, or one of the two
\* fixed texts used when the answer is empty or env.AI.run throws (both
\* longer than InsightMax).
AiTexts == {Text(1), Text(InsightMax + 1)}

\* arr.slice(-3)
LastThree(v) ==
  IF v.t # "array" THEN Arr(<<>>)
  ELSE Arr(SubSeq(v.a, IF Len(v.a) > 3 THEN Len(v.a) - 2 ELSE 1, Len(v.a)))

\* buildAIPrompt(question, memory): the parts of memory that go into the
\* prompt text.
Prompt(question, mem) ==
  [question |-> question,
   riskFactors |-> At(mem, RiskFactors),
   conditions |-> At(mem, Conditions),
   recentQuestions |-> LastThree(At(mem, RecentQuestions))]

\* export default fetch: the request is routed to its handler, which reads
\* userId (and message) from it.
fetch_route(h, r) ==
  /\ hpc[h] = "none"
  /\ \A g \in Procs : g < h => hpc[g] # "none"
  /\ hpc' = [hpc EXCEPT ![h] = "start"]
  /\ hreq' = [hreq EXCEPT ![h] = r]
  /\ UNCHANGED <<hmem, hresp>>
  /\ UNCHANGED <<hai, analytics, client>>
  /\ UNCHANGED store

\* The handler answers with an error (status 400 in the first version, a
\* thrown Error and status 500 in the second) before it asks for a stub.
handler_reject(h) ==
  /\ hpc[h] = "start"
  /\ Rejected(hreq[h])
  /\ hpc' = [hpc EXCEPT ![h] = "responded"]
  /\ hresp' = [hresp EXCEPT ![h] = ErrorResponse]
  /\ UNCHANGED <<hreq, hmem>>
  /\ UNCHANGED <<hai, analytics, client>>
  /\ UNCHANGED store

\* env.USER_CONTEXT.get(env.USER_CONTEXT.idFromName(userId)).fetch(/memory)
stub_fetch(h, op, patch) ==
  /\ pc[h] \in {"idle", "done"}
  /\ pc' = [pc EXCEPT ![h] = "fetch"]
  /\ req' = [req EXCEPT ![h] =
               [user |-> hreq[h].userId, op |-> op, patch |-> patch]]
  /\ h_faulted' = [h_faulted EXCEPT ![h] = FALSE]
  /\ h_persisted' = [h_persisted EXCEPT ![h] = FALSE]
  /\ UNCHANGED <<build, now, DEFAULT_MEMORY, storage, gate, memory, aliased,
                 nops, returned, h_before, h_lastPatched>>

\* handleChat: memRes = await stub.fetch(GET /memory)
handleChat_memory(h) ==
  /\ hpc[h] = "start"
  /\ hreq[h].route = "chat"
  /\ ~Rejected(hreq[h])
  /\ stub_fetch(h, "get", EmptyObj)
  /\ hpc' = [hpc EXCEPT ![h] = "memRes"]
  /\ UNCHANGED <<hreq, hmem, hresp>>
  /\ UNCHANGED <<hai, analytics, client>>

\* handleChat: updateRes = await stub.fetch(POST /memory
\*   {conversation: {recentQuestions: [...memory's, message]}})
handleChat_update(h) ==
  /\ hpc[h] = "memRes"
  /\ pc[h] = "done"
  /\ stub_fetch(h, "patch",
        Obj([conversation |->
               Obj([recentQuestions |->
                      Appended(hmem[h], RecentQuestions, hreq[h].message)])]))
  /\ hpc' = [hpc EXCEPT ![h] = "updateRes"]
  /\ UNCHANGED <<hreq, hmem, hresp>>
  /\ UNCHANGED <<hai, analytics, client>>

\* handleChat: responseText = await generateMedicalInsight(message,
\* updatedMemory, env).  The prompt is built from updatedMemory; without a
\* profile in it both buildAIPrompt and the catch block throw.
handleChat_generate(h, text) ==
  /\ hpc[h] = "updateRes"
  /\ pc[h] = "done"
  /\ IF IsPlainObject(Get(hmem[h], "profile"))
     THEN /\ hai' = [hai EXCEPT ![h] =
                       [prompt |-> Prompt(hreq[h].message, hmem[h]),
                        response |-> text]]
          /\ hpc' = [hpc EXCEPT ![h] = "aiRes"]
          /\ UNCHANGED hresp
     ELSE /\ hpc' = [hpc EXCEPT ![h] = "responded"]
          /\ hresp' = [hresp EXCEPT ![h] = ErrorResponse]
          /\ UNCHANGED hai
  /\ UNCHANGED <<hreq, hmem, analytics, client>>
  /\ UNCHANGED store

\* handleChat: await stub.fetch(POST /memory {conversation: {keyInsights:
\*   [...updatedMemory's, aiResponse.response.substring(0, 150)]}})
handleChat_insight(h) ==
  /\ hpc[h] = "aiRes"
  /\ pc[h] = "done"
  /\ stub_fetch(h, "patch",
        Obj([conversation |->
               Obj([keyInsights |->
                      Appended(hmem[h], KeyInsights,
                               Insight(hai[h].response))])]))
  /\ hpc' = [hpc EXCEPT ![h] = "insightRes"]
  /\ UNCHANGED <<hreq, hmem, hresp>>
  /\ UNCHANGED <<hai, analytics, client>>

\* handleChat: the response, with updatedMemory.profile's riskFactors and
\* conditions (a TypeError when updatedMemory has no profile).
handleChat_respond(h) ==
  /\ hpc[h] = "insightRes"
  /\ pc[h] = "done"
  /\ hpc' = [hpc EXCEPT ![h] = "responded"]
  /\ hresp' = [hresp EXCEPT ![h] =
                 IF IsPlainObject(Get(hmem[h], "profile"))
                 THEN JSONCopy(Obj([context |->
                        Obj([riskFactors |-> At(hmem[h], RiskFactors),
                             conditions |-> At(hmem[h], Conditions)])]))
                 ELSE ErrorResponse]
  /\ UNCHANGED <<hreq, hmem>>
  /\ UNCHANGED <<hai, analytics, client>>
  /\ UNCHANGED store

\* handleRisk: res = await stub.fetch(POST /memory
\*   {profile: {riskFactors: riskFactors || [], conditions: conditions || []}})
handleRisk_update(h) ==
  /\ hpc[h] = "start"
  /\ hreq[h].route = "risk"
  /\ ~Rejected(hreq[h])
  /\ stub_fetch(h, "patch",
        Obj([profile |-> Obj([riskFactors |-> OrEmpty(hreq[h].riskFactors),
                              conditions |-> OrEmpty(hreq[h].conditions)])]))
  /\ hpc' = [hpc EXCEPT ![h] = "riskRes"]
  /\ UNCHANGED <<hreq, hmem, hresp>>
  /\ UNCHANGED <<hai, analytics, client>>

\* handleRisk: the response, with updatedMemory.profile.
handleRisk_respond(h) ==
  /\ hpc[h] = "riskRes"
  /\ pc[h] = "done"
  /\ hpc' = [hpc EXCEPT ![h] = "responded"]
  /\ hresp' = [hresp EXCEPT ![h] =
                 JSONCopy(Obj([profile |-> Get(hmem[h], "profile")]))]
  /\ UNCHANGED <<hreq, hmem>>
  /\ UNCHANGED <<hai, analytics, client>>
  /\ UNCHANGED store

\* handleGetContext: res = await stub.fetch(GET /memory)
handleGetContext_memory(h) ==
  /\ hpc[h] = "start"
  /\ hreq[h].route = "context"
  /\ ~Rejected(hreq[h])
  /\ stub_fetch(h, "get", EmptyObj)
  /\ hpc' = [hpc EXCEPT ![h] = "ctxRes"]
  /\ UNCHANGED <<hreq, hmem, hresp>>
  /\ UNCHANGED <<hai, analytics, client>>

\* handleGetContext: the response {userId, memory}.
handleGetContext_respond(h) ==
  /\ hpc[h] = "ctxRes"
  /\ pc[h] = "done"
  /\ hpc' = [hpc EXCEPT ![h] = "responded"]
  /\ hresp' = [hresp EXCEPT ![h] = Obj([memory |-> hmem[h]])]
  /\ UNCHANGED <<hreq, hmem>>
  /\ UNCHANGED <<hai, analytics, client>>
  /\ UNCHANGED store

NextWorker ==
  \/ \E h \in Procs, r \in HttpRequests : fetch_route(h, r)
  \/ \E h \in Procs : handler_reject(h)
  \/ \E h \in Procs : handleChat_memory(h)
  \/ \E h \in Procs : handleChat_update(h)
  \/ \E h \in Procs, text \in AiTexts : handleChat_generate(h, text)
  \/ \E h \in Procs : handleChat_insight(h)
  \/ \E h \in Procs : handleChat_respond(h)
  \/ \E h \in Procs : handleRisk_update(h)
  \/ \E h \in Procs : handleRisk_respond(h)
  \/ \E h \in Procs : handleGetContext_memory(h)
  \/ \E h \in Procs : handleGetContext_respond(h)
  \/ \E p \in Procs : getMemory_get(p)
  \/ \E p \in Procs : getMemory_create(p)
  \/ \E p \in Procs : fetch_GET(p)
  \/ \E p \in Procs : updateMemory_put(p)
  \/ \E p \in Procs : fetch_POST(p)

SpecWorker == Init /\ [][NextWorker]_vars

\* ------------------------------------------------------------ analytics
\* logAnalytics(env.ANALYTICS, event), called by the first version's
\* handleChat and handleRisk before they respond, and GET /analytics.  A
\* value of the namespace is a JSON text, held here as the document it
\* parses to.
\* logAnalytics: timestamp = Date.now(); await kv.put(key, JSON.stringify(event))
logAnalytics_putEvent(c, e) ==
  /\ log[c].pc = "none"
  /\ \A b \in Procs : b < c => log[b].pc # "none"
  /\ now' \in DateNow
  /\ kv' = [kv EXCEPT ![EventKey(e, now')] = Obj([event |-> Str(e)])]
  /\ log' = [log EXCEPT ![c] = [pc |-> "getCount", event |-> e,
                                timestamp |-> now',
                                currentCount |-> Undefined]]
  /\ UNCHANGED <<build, DEFAULT_MEMORY, storage, gate, pc, req, memory,
                 aliased, nops, returned, h_before, h_faulted, h_persisted,
                 h_lastPatched>>
  /\ UNCHANGED <<hpc, hreq, hmem, hresp, hai, stats, client>>

\* logAnalytics: currentCount = await kv.get(countKey)
logAnalytics_get(c) ==
  /\ log[c].pc = "getCount"
  /\ log' = [log EXCEPT ![c].pc = "putCount",
                        ![c].currentCount = kv[CountKey(log[c].event)]]
  /\ UNCHANGED <<hpc, hreq, hmem, hresp, hai, kv, stats, client>>
  /\ UNCHANGED store

\* newCount = currentCount ? JSON.parse(currentCount).count + 1 : 1
NewCount(currentCount) ==
  IF currentCount = Undefined THEN 1 ELSE Get(currentCount, "count").n + 1

\* logAnalytics: await kv.put(countKey, JSON.stringify({count: newCount,
\*   lastUpdated: timestamp}))
logAnalytics_putCount(c) ==
  /\ log[c].pc = "putCount"
  /\ kv' = [kv EXCEPT ![CountKey(log[c].event)] =
              Obj([count |-> Num(NewCount(log[c].currentCount)),
                   lastUpdated |-> Num(log[c].timestamp)])]
  /\ log' = [log EXCEPT ![c].pc = "done"]
  /\ UNCHANGED <<hpc, hreq, hmem, hresp, hai, stats, client>>
  /\ UNCHANGED store

\* handleGetAnalytics: chatCount = await env.ANALYTICS.get("count:chat")
handleGetAnalytics_chat ==
  /\ stats.pc \in {"none", "responded"}
  /\ stats' = [pc |-> "chatCount", chatCount |-> kv[CountKey("chat")],
               riskUpdateCount |-> Undefined, response |-> Undefined]
  /\ UNCHANGED <<hpc, hreq, hmem, hresp, hai, kv, log, client>>
  /\ UNCHANGED store

\* handleGetAnalytics: riskUpdateCount = await env.ANALYTICS.get("count:risk_update")
handleGetAnalytics_risk ==
  /\ stats.pc = "chatCount"
  /\ stats' = [stats EXCEPT !.pc = "riskUpdateCount",
                            !.riskUpdateCount = kv[CountKey("risk_update")]]
  /\ UNCHANGED <<hpc, hreq, hmem, hresp, hai, kv, log, client>>
  /\ UNCHANGED store

\* stats.events.x?.count || 0
CountOrZero(v) == IF v = Undefined THEN 0 ELSE Get(v, "count").n

\* handleGetAnalytics: stats.events gets an entry for each counter that
\* exists, and total; the response is JSON.stringify(stats).
handleGetAnalytics_respond ==
  /\ stats.pc = "riskUpdateCount"
  /\ stats' = [stats EXCEPT !.pc = "responded",
        !.response = JSONCopy(Obj([events |->
           Obj([chat |-> stats.chatCount,
                risk_update |-> stats.riskUpdateCount,
                total |-> Num(CountOrZero(stats.chatCount)
                              + CountOrZero(stats.riskUpdateCount))])]))]
  /\ UNCHANGED <<hpc, hreq, hmem, hresp, hai, kv, log, client>>
  /\ UNCHANGED store

NextAnalytics ==
  \/ \E c \in Procs, e \in Events : logAnalytics_putEvent(c, e)
  \/ \E c \in Procs : logAnalytics_get(c)
  \/ \E c \in Procs : logAnalytics_putCount(c)
  \/ handleGetAnalytics_chat
  \/ handleGetAnalytics_risk
  \/ handleGetAnalytics_respond

SpecAnalytics == Init /\ [][NextAnalytics]_vars

\* ------------------------------------------------------------- chat page
\* script.js.  The Worker is the page's environment: a fetch is answered
\* with status 200 and the profile of the userId it carried, or fails.
\* What the page holds of a user is kept with that user's session id.
server == <<hpc, hreq, hmem, hresp, hai, analytics>>

\* The profiles a response can carry.
Profiles ==
  {Obj([riskFactors |-> Arr(<<>>), conditions |-> Arr(<<>>)]),
   Obj([riskFactors |-> Arr(<<"X">>), conditions |-> Arr(<<"Y">>)])}

\* updateProfileDisplay(context) with the data of user u: a display is
\* rewritten only for a list that is there and not empty.
Tagged(u, list, shown) ==
  IF list.t = "array" /\ Len(list.a) > 0 THEN [of |-> u, tags |-> list.a]
  ELSE shown

updateProfileDisplay(pg, u, context) ==
  [pg EXCEPT
     !.riskFactorsDisplay = Tagged(u, Get(context, "riskFactors"), @),
     !.conditionsDisplay = Tagged(u, Get(context, "conditions"), @)]

\* sendMessage, with a message that is not blank, up to its await
\* fetch(/chat): the indicator is shown, the send button disabled, the request
\* carries currentUserId.  Nothing in it looks at the button or at calls
\* still waiting.
sendMessage(c) ==
  /\ calls[c].pc = "none"
  /\ \A b \in Procs : b < c => calls[b].pc # "none"
  /\ calls' = [calls EXCEPT ![c] = [pc |-> "inflight", kind |-> "chat",
                                    userId |-> page.currentUserId]]
  /\ page' = [page EXCEPT !.loadingShown = TRUE, !.sendBtnDisabled = TRUE]
  /\ UNCHANGED store
  /\ UNCHANGED server

\* chatForm's submit event with a message typed; a form whose submit button
\* is disabled is not submitted, and the modal covers the page.
chatForm_submit(c) ==
  /\ ~page.sendBtnDisabled
  /\ ~page.riskModalShown
  /\ sendMessage(c)

\* A click on a quick reply button.
quickReply_click(c) ==
  /\ ~page.riskModalShown
  /\ sendMessage(c)

\* sendMessage: response.ok, data = await response.json(); currentMemory and
\* the display are set from data.context; finally.
sendMessage_ok(c, context) ==
  /\ calls[c].pc = "inflight" /\ calls[c].kind = "chat"
  /\ calls' = [calls EXCEPT ![c].pc = "done"]
  /\ page' = [updateProfileDisplay(page, calls[c].userId, context) EXCEPT
                !.currentMemory = [of |-> calls[c].userId,
                                   value |-> Obj([context |-> context])],
                !.loadingShown = FALSE, !.sendBtnDisabled = FALSE]
  /\ UNCHANGED store
  /\ UNCHANGED server

\* sendMessage: fetch rejects or !response.ok; catch, finally.
sendMessage_fail(c) ==
  /\ calls[c].pc = "inflight" /\ calls[c].kind = "chat"
  /\ calls' = [calls EXCEPT ![c].pc = "done"]
  /\ page' = [page EXCEPT !.loadingShown = FALSE, !.sendBtnDisabled = FALSE]
  /\ UNCHANGED store
  /\ UNCHANGED server

showRiskModal ==
  /\ ~page.riskModalShown
  /\ page' = [page EXCEPT !.riskModalShown = TRUE]
  /\ UNCHANGED calls
  /\ UNCHANGED store
  /\ UNCHANGED server

closeRiskModal ==
  /\ page.riskModalShown
  /\ page' = [page EXCEPT !.riskModalShown = FALSE]
  /\ UNCHANGED calls
  /\ UNCHANGED store
  /\ UNCHANGED server

\* submitRiskFactors, with something entered, up to its await fetch(/risk).
submitRiskFactors(c) ==
  /\ page.riskModalShown
  /\ calls[c].pc = "none"
  /\ \A b \in Procs : b < c => calls[b].pc # "none"
  /\ calls' = [calls EXCEPT ![c] = [pc |-> "inflight", kind |-> "risk",
                                    userId |-> page.currentUserId]]
  /\ page' = [page EXCEPT !.loadingShown = TRUE]
  /\ UNCHANGED store
  /\ UNCHANGED server

\* submitRiskFactors: response.ok; the display is set from data.profile, the
\* modal closed; finally.
submitRiskFactors_ok(c, profile) ==
  /\ calls[c].pc = "inflight" /\ calls[c].kind = "risk"
  /\ calls' = [calls EXCEPT ![c].pc = "done"]
  /\ page' = [updateProfileDisplay(page, calls[c].userId, profile) EXCEPT
                !.riskModalShown = FALSE, !.loadingShown = FALSE]
  /\ UNCHANGED store
  /\ UNCHANGED server

submitRiskFactors_fail(c) ==
  /\ calls[c].pc = "inflight" /\ calls[c].kind = "risk"
  /\ calls' = [calls EXCEPT ![c].pc = "done"]
  /\ page' = [page EXCEPT !.loadingShown = FALSE]
  /\ UNCHANGED store
  /\ UNCHANGED server

\* fetchUserContext: response.ok; currentMemory = data.memory,
\* updateProfileDisplay(data.memory.profile).
fetchUserContext_ok(profile) ==
  /\ page.contextFetch.pc = "inflight"
  /\ page' = [updateProfileDisplay(page, page.contextFetch.userId, profile)
                EXCEPT
                !.currentMemory = [of |-> page.contextFetch.userId,
                                   value |-> Obj([profile |-> profile])],
                !.contextFetch.pc = "done"]
  /\ UNCHANGED calls
  /\ UNCHANGED store
  /\ UNCHANGED server

fetchUserContext_fail ==
  /\ page.contextFetch.pc = "inflight"
  /\ page' = [page EXCEPT !.contextFetch.pc = "done"]
  /\ UNCHANGED calls
  /\ UNCHANGED store
  /\ UNCHANGED server

\* generateUserId(): an id not used before (Date.now() and nine random
\* characters).
generateUserId(pg) == pg.currentUserId + 1

\* startNewSession with the confirm accepted.
startNewSession ==
  /\ ~page.riskModalShown
  /\ page.currentUserId <= MaxOps
  /\ page' = [page EXCEPT !.currentUserId = generateUserId(page),
                          !.cookie = generateUserId(page),
                          !.currentMemory = Null,
                          !.riskFactorsDisplay = NoTags,
                          !.conditionsDisplay = NoTags]
  /\ UNCHANGED calls
  /\ UNCHANGED store
  /\ UNCHANGED server

NextPage ==
  \/ \E c \in Procs : chatForm_submit(c)
  \/ \E c \in Procs : quickReply_click(c)
  \/ \E c \in Procs, context \in Profiles : sendMessage_ok(c, context)
  \/ \E c \in Procs : sendMessage_fail(c)
  \/ showRiskModal
  \/ closeRiskModal
  \/ \E c \in Procs : submitRiskFactors(c)
  \/ \E c \in Procs, profile \in Profiles : submitRiskFactors_ok(c, profile)
  \/ \E c \in Procs : submitRiskFactors_fail(c)
  \/ \E profile \in Profiles : fetchUserContext_ok(profile)
  \/ fetchUserContext_fail
  \/ startNewSession

SpecPage == Init /\ [][NextPage]_vars

\* ---------------------------------------------- callers of getMemory
\* What the caller of a get holds.  UserMemoryDO has no fetch: its get is
\* getMemory(), which returns the object memory itself, and with it the
\* objects memory shares with DEFAULT_MEMORY.  The classes with fetch answer
\* with the text JSON.stringify(memory), which shares nothing.
ReturnedAliases(b, al) == IF b = "UserMemoryDO" THEN al ELSE {}

\* rec.a.b.push(x)
Pushed(rec, path, x) ==
  Obj([k \in Keys(rec) |->
         IF k = path[1]
         THEN Obj([j \in Keys(rec.o[k]) |->
                     IF j = path[2] THEN Arr(rec.o[k].o[j].a \o <<x>>)
                     ELSE rec.o[k].o[j]])
         ELSE rec.o[k]])

\* A get returns and its caller pushes "Z" onto profile.riskFactors of the
\* record it was given: the caller's record changes, and so does every
\* object that shares profile with it.
caller_mutates(p) ==
  /\ pc[p] = "have"
  /\ req[p].op = "get"
  /\ Return(p, Pushed(JSONCopy(memory[p]), RiskFactors, "Z"))
  /\ DEFAULT_MEMORY' =
       IF "profile" \in ReturnedAliases(build, aliased[p])
       THEN Pushed(DEFAULT_MEMORY, RiskFactors, "Z")
       ELSE DEFAULT_MEMORY
  /\ UNCHANGED <<build, now, storage, nops, h_faulted, h_persisted,
                 h_lastPatched>>

NextCaller ==
  \/ \E p \in Procs, r \in Requests : Request(p, r.user, r.op, r.patch)
  \/ \E p \in Procs : getMemory_get(p)
  \/ \E p \in Procs : getMemory_create(p)
  \/ \E p \in Procs : fetch_GET(p)
  \/ \E p \in Procs : caller_mutates(p)
  \/ \E p \in Procs : updateMemory_put(p)
  \/ \E p \in Procs : fetch_POST(p)

SpecCaller == Init /\ [][NextCaller]_vars

\* ------------------------------------------------- two identities at work
\* Gets and patches for both identities.
RequestsPair ==
  [user : Users, op : {"get"}, patch : {EmptyObj}]
    \cup [user : Users, op : {"patch"}, patch : {P_riskX}]

NextPair ==
  \/ \E p \in Procs, r \in RequestsPair : Request(p, r.user, r.op, r.patch)
  \/ \E p \in Procs : getMemory_get(p)
  \/ \E p \in Procs : getMemory_create(p)
  \/ \E p \in Procs : fetch_GET(p)
  \/ \E p \in Procs : updateMemory_put(p)
  \/ \E p \in Procs : fetch_POST(p)

SpecPair == Init /\ [][NextPair]_vars

\* ------------------------------------------- first access to an identity
\* A request that arrives while its identity has no record yet: the requests
\* of SpecFirst all race for the creation of the record.
RequestFirst(p, u, op, patch) ==
  /\ storage[idFromName(u)] = Undefined
  /\ Request(p, u, op, patch)

NextFirst ==
  \/ \E p \in Procs, r \in Requests : RequestFirst(p, r.user, r.op, r.patch)
  \/ \E p \in Procs : getMemory_get(p)
  \/ \E p \in Procs : getMemory_create(p)
  \/ \E p \in Procs : fetch_GET(p)
  \/ \E p \in Procs : updateMemory_put(p)
  \/ \E p \in Procs : fetch_POST(p)

SpecFirst == Init /\ [][NextFirst]_vars

\* ------------------------------------------------------- untyped patches
\* POST /memory takes whatever request.json() yields: bodies that are no
\* Partial<UserMemory>.
P_strSeq == Obj([profile |-> Obj([riskFactors |-> Str("X")])])
P_numSeq == Obj([conversation |-> Obj([recentQuestions |-> Num(7)])])
P_strCreated == Obj([meta |-> Obj([createdAt |-> Str("x")])])
P_nullMeta == Obj([meta |-> Null])
UntypedPatches == {P_strSeq, P_numSeq, P_strCreated, P_nullMeta}

RequestsUntyped ==
  [user : Users, op : {"get"}, patch : {EmptyObj}]
    \cup [user : {"U1"}, op : {"patch"}, patch : UntypedPatches \cup {P_riskX}]

NextUntyped ==
  \/ \E p \in Procs, r \in RequestsUntyped : Request(p, r.user, r.op, r.patch)
  \/ \E p \in Procs : getMemory_get(p)
  \/ \E p \in Procs : getMemory_create(p)
  \/ \E p \in Procs : fetch_GET(p)
  \/ \E p \in Procs : updateMemory_put(p)
  \/ \E p \in Procs : fetch_POST(p)

SpecUntyped == Init /\ [][NextUntyped]_vars

\* ---------------------------------------------- patches over other shapes
\* Patches that put a plain object where the record holds nothing, an array,
\* a number or null, and patches that carry null or undefined.  (A body read
\* by request.json() has no undefined; updateMemory(patch) called on the
\* object directly can.)
P_newKey == Obj([settings |-> Obj([theme |-> Str("dark")])])
P_objOverArr == Obj([profile |-> Obj([riskFactors |-> Obj([level |-> Str("X")])])])
P_objOverNum == Obj([meta |-> Obj([createdAt |-> Obj([at |-> Num(0)])])])
P_objOverNull == Obj([profile |-> Obj([interests |-> Obj([topic |-> Str("X")])])])
P_nullInterests == Obj([profile |-> Obj([interests |-> Null])])
P_nullProfile == Obj([profile |-> Null])
P_undef == Obj([profile |-> Obj([riskFactors |-> Undefined])])
ShapePatches ==
  {P_newKey, P_objOverArr, P_objOverNum, P_objOverNull, P_nullInterests,
   P_nullProfile, P_nullMeta, P_undef}

RequestsShape ==
  [user : Users, op : {"get"}, patch : {EmptyObj}]
    \cup [user : {"U1"}, op : {"patch"}, patch : ShapePatches \cup {P_riskX}]

NextShape ==
  \/ \E p \in Procs, r \in RequestsShape : Request(p, r.user, r.op, r.patch)
  \/ \E p \in Procs : getMemory_get(p)
  \/ \E p \in Procs : getMemory_create(p)
  \/ \E p \in Procs : fetch_GET(p)
  \/ \E p \in Procs : updateMemory_put(p)
  \/ \E p \in Procs : fetch_POST(p)

SpecShape == Init /\ [][NextShape]_vars

\* ------------------------------------------------------------ properties
StoredFor(u) == storage[idFromName(u)]

\* The patch names the field at path (itself, or by replacing its parent).
Mentions(patch, path) ==
  /\ Get(patch, path[1]) # Undefined
  /\ IsPlainObject(Get(patch, path[1])) => At(patch, path) # Undefined

\* Steps of request p.
PutStep(p) == pc[p] = "have" /\ pc'[p] = "put" /\ h_persisted'[p]
CreateStep(p) == pc[p] = "create" /\ pc'[p] = "have" /\ ~h_faulted'[p]
PatchReturns(p) == pc[p] = "put" /\ pc'[p] = "done"
GetReturns(p) == pc[p] = "have" /\ pc'[p] = "done" /\ req[p].op = "get"

C2_FramePreserved ==
  [][\A p \in Procs : PutStep(p) =>
       \A path \in LeafPaths \ {LastActive} :
          ~Mentions(req[p].patch, path)
            => At(storage'[DO(p)], path) = At(storage[DO(p)], path)]_vars

C2_Witness ==
  \E p \in Procs :
     /\ pc[p] = "put" /\ req[p].patch = P_condY
     /\ h_before[p] # Undefined
     /\ At(h_before[p], RiskFactors) = Arr(<<"X">>)
     /\ At(storage[DO(p)], RiskFactors) = Arr(<<"X">>)
     /\ At(storage[DO(p)], Conditions) = Arr(<<"Y">>)

\* C3: an array supplied by a patch replaces the stored array: after the
\* patch the stored array is exactly the supplied one.
C3_ArrayReplaced ==
  [][\A p \in Procs : PutStep(p) =>
       \A path \in SeqPaths :
          At(req[p].patch, path).t = "array"
            => At(storage'[DO(p)], path) = At(req[p].patch, path)]_vars

C3_Witness ==
  \E p \in Procs :
     /\ pc[p] = "put" /\ req[p].patch = P_q2
     /\ h_before[p] # Undefined
     /\ At(h_before[p], RecentQuestions) = Arr(<<"Q1">>)
     /\ At(storage[DO(p)], RecentQuestions) = Arr(<<"Q2">>)

\* C4: no step of a request for one identity changes the record stored for
\* another; a record is created with all five sequences empty whatever was
\* done for other identities before; a get answers with the record stored
\* for its own identity.
C4_Isolation ==
  [][ /\ \A u \in Users :
           storage'[idFromName(u)] # storage[idFromName(u)]
             => \E p \in Procs : pc'[p] # pc[p] /\ req[p].user = u
      /\ \A p \in Procs : CreateStep(p) =>
           \A path \in SeqPaths : At(storage'[DO(p)], path) = Arr(<<>>)
      /\ \A p \in Procs : GetReturns(p) =>
           returned'.body = JSONCopy(StoredFor(req[p].user)) ]_vars

C4_Witness ==
  /\ At(StoredFor("U1"), RiskFactors) = Arr(<<"X">>)
  /\ StoredFor("U2") # Undefined
  /\ At(StoredFor("U2"), CreatedAt).n > At(StoredFor("U1"), LastActive).n
  /\ \A path \in SeqPaths : At(StoredFor("U2"), path) = Arr(<<>>)

\* C5: the createdAt of a stored record never changes.
C5_CreatedAtImmutable ==
  [][\A u \in Users :
       storage[idFromName(u)] # Undefined
         => At(storage'[idFromName(u)], CreatedAt)
              = At(storage[idFromName(u)], CreatedAt)]_vars

\* C6: the stored lastActive never decreases, and every patch that is
\* written stores the clock value of that moment as lastActive.
C6_LastActive ==
  [][ /\ \A u \in Users :
           storage[idFromName(u)] # Undefined
             => At(storage'[idFromName(u)], LastActive).n
                  >= At(storage[idFromName(u)], LastActive).n
      /\ \A p \in Procs : PutStep(p) =>
           At(storage'[DO(p)], LastActive) = Num(now') ]_vars

C6_Witness ==
  \E p \in Procs :
     /\ pc[p] = "put" /\ req[p].patch = P_meta
     /\ h_before[p] # Undefined
     /\ At(h_before[p], LastActive) = Num(1)
     /\ At(storage[DO(p)], LastActive) = Num(2)

C8_FirstGetDefault ==
  [][\A p \in Procs :
       /\ (CreateStep(p) /\ req[p].op = "get")
            => storage'[DO(p)] = DefaultMemoryAt(now')
       /\ (GetReturns(p) /\ h_before[p] = Undefined)
            => returned'.body = storage[DO(p)] ]_vars

\* C9: a patch whose storage write failed is answered with an error, never
\* with the merged record.
C9_WriteFailureSurfaced ==
  [][\A p \in Procs :
       (PatchReturns(p) /\ ~h_persisted[p])
         => returned'.body = ErrorResponse]_vars

\* C10: when a storage read or write of a patch failed, the record stored
\* when the patch is answered is the record stored before it: a record that
\* existed is not replaced (by a default record merged with the patch, or by
\* anything else).
C10_FailedPatchNoEffect ==
  [][\A p \in Procs :
       ( /\ req[p].op = "patch"
         /\ pc[p] # "done" /\ pc'[p] = "done"
         /\ h_faulted'[p]
         /\ h_before[p].t = "object" )
       => storage'[DO(p)] = h_before[p]]_vars

\* C11: a get during which a storage call failed is answered with an error,
\* never with a record (a freshly built default in particular).
C11_ReadFailureSurfaced ==
  [][\A p \in Procs :
       ( /\ req[p].op = "get"
         /\ pc[p] # "done" /\ pc'[p] = "done"
         /\ h_faulted'[p] )
       => returned'.body = ErrorResponse]_vars

\* C12: of the requests that arrive for an identity without a record, one
\* creates the record and no creation replaces a record that exists; the
\* records they are answered with all carry the same createdAt.
C12_SingleCreation ==
  [][\A p \in Procs :
       /\ CreateStep(p) => storage[DO(p)] = Undefined
       /\ ( /\ pc[p] # "done" /\ pc'[p] = "done"
            /\ returned.req.op # "none"
            /\ returned.req.user = req[p].user
            /\ IsPlainObject(returned.body)
            /\ IsPlainObject(returned'.body) )
          => At(returned'.body, CreatedAt) = At(returned.body, CreatedAt)]_vars

\* C13: the patch {} changes meta.lastActive and nothing else: the stored
\* record keeps its keys, its createdAt and its five sequences.
C13_EmptyPatch ==
  [][\A p \in Procs : (PutStep(p) /\ req[p].patch = P_empty) =>
       /\ Keys(storage'[DO(p)]) = Keys(storage[DO(p)])
       /\ \A k \in Keys(storage[DO(p)]) :
            Keys(storage'[DO(p)].o[k]) = Keys(storage[DO(p)].o[k])
       /\ \A path \in LeafPaths \ {LastActive} :
            At(storage'[DO(p)], path) = At(storage[DO(p)], path)]_vars

C13_Witness ==
  \E p \in Procs :
     /\ pc[p] = "put" /\ req[p].patch = P_empty
     /\ IsPlainObject(h_before[p])
     /\ At(h_before[p], RiskFactors) = Arr(<<"X">>)
     /\ At(h_before[p], LastActive) = Num(1)
     /\ At(storage[DO(p)], RiskFactors) = Arr(<<"X">>)
     /\ At(storage[DO(p)], CreatedAt) = Num(1)
     /\ At(storage[DO(p)], LastActive) = Num(2)

C15_StoredWellTyped ==
  \A u \in Users :
     StoredFor(u) # Undefined =>
       /\ \A path \in SeqPaths : At(StoredFor(u), path).t = "array"
       /\ At(StoredFor(u), CreatedAt).t = "number"
       /\ At(StoredFor(u), LastActive).t = "number"

\* C16: a /chat, /risk or /context request with an empty userId is answered
\* with an error by the first step its handler takes; that step leaves the
\* objects untouched and the handler never sends them a request, so no
\* record is created, read or modified on its behalf.
C16_EmptyUserRejected ==
  [][\A h \in Procs :
       /\ (hreq[h].userId = "" /\ hpc[h] = "start" /\ hpc'[h] # hpc[h])
            => /\ hpc'[h] = "responded"
               /\ hresp'[h] = ErrorResponse
               /\ store' = store
       /\ (hreq'[h].userId = "" /\ hpc'[h] # "none")
            => /\ pc'[h] = "idle"
               /\ storage'[idFromName("")] = Undefined]_vars

C16_Witness ==
  \E h, g \in Procs :
     /\ hpc[h] = "responded" /\ hreq[h].userId = ""
     /\ hreq[h].route = "chat"
     /\ hresp[h] = ErrorResponse
     /\ pc[h] = "idle"
     /\ hpc[g] = "responded" /\ hreq[g].userId = "U1"
     /\ StoredFor("U1") # Undefined
     /\ storage[idFromName("")] = Undefined

\* C20: under /chat every new stored value of conversation.recentQuestions
\* is the previous stored value with one message appended.
C20_AppendOnly ==
  [][\A u \in Users :
       ( /\ StoredFor(u) # Undefined
         /\ At(storage'[idFromName(u)], RecentQuestions)
              # At(StoredFor(u), RecentQuestions) )
       => \E r \in HttpRequests :
             /\ r.route = "chat"
             /\ At(storage'[idFromName(u)], RecentQuestions)
                  = Appended(StoredFor(u), RecentQuestions, r.message)]_vars

\* C17: what a get hands to its caller shares nothing with the stored
\* records or with the template: whatever the caller does to it, the step
\* leaves storage and DEFAULT_MEMORY as they were, and every record created
\* afterwards still has five empty sequences.
C17_NoAliasing ==
  [][ /\ \A p \in Procs : GetReturns(p) =>
           storage' = storage /\ DEFAULT_MEMORY' = DEFAULT_MEMORY
      /\ \A p \in Procs : CreateStep(p) =>
           \A path \in SeqPaths : At(storage'[DO(p)], path) = Arr(<<>>) ]_vars

\* A default record: five empty sequences, createdAt = lastActive.
IsDefault(rec) ==
  /\ \A path \in SeqPaths : At(rec, path) = Arr(<<>>)
  /\ At(rec, CreatedAt).t = "number"
  /\ At(rec, LastActive) = At(rec, CreatedAt)

\* new is old with the whole of patch applied at time t: every field the
\* patch names has the patch's value, every other field old's value (that of
\* a default record when there was no old), and lastActive is t.
Complete(old, new, patch, t) ==
  /\ \A path \in SeqPaths \cup {CreatedAt} :
       At(new, path) =
         IF Mentions(patch, path) THEN At(patch, path)
         ELSE IF old # Undefined THEN At(old, path)
         ELSE IF path = CreatedAt THEN At(new, path)
         ELSE Arr(<<>>)
  /\ At(new, LastActive) = Num(t)

\* C18: every record written is a default record or the whole of a patch
\* applied to the record stored before, and a patch answered with an error
\* leaves the record that was stored before it: no get can observe a partly
\* applied patch.
C18_NoPartialPatch ==
  [][ /\ \A d \in DOs : storage'[d] # storage[d] =>
           \E p \in Procs : DO(p) = d /\ pc'[p] # pc[p]
      /\ \A p \in Procs :
           (pc'[p] # pc[p] /\ storage'[DO(p)] # storage[DO(p)])
             => \/ IsDefault(storage'[DO(p)])
                \/ /\ req[p].op = "patch"
                   /\ Complete(storage[DO(p)], storage'[DO(p)],
                               req[p].patch, now')
      /\ \A p \in Procs :
           ( /\ req[p].op = "patch"
             /\ pc[p] # "done" /\ pc'[p] = "done"
             /\ returned'.body = ErrorResponse
             /\ IsPlainObject(h_before[p]) )
           => storage'[DO(p)] = h_before[p] ]_vars

\* C19: a request waits for requests of its own identity only: whenever no
\* other request of its identity is between its read and its answer, the
\* input gate of its object is open to it, whatever requests of other
\* identities are suspended at their storage awaits; and what a started
\* request holds is the record of its own identity.
C19_NoCrossBlocking ==
  \A q \in Procs :
     /\ ( /\ pc[q] = "fetch"
          /\ ~\E p \in Procs : /\ p # q
                                /\ req[p].user = req[q].user
                                /\ pc[p] \in {"create", "have", "put"} )
        => InputGateOpen(DO(q), q)
     /\ pc[q] \in {"have", "put"}
          => StructuredClone(memory[q]) = storage[DO(q)]

C19_Witness ==
  \E p, q \in Procs :
     /\ req[p].user = "U1" /\ req[p].op = "patch" /\ pc[p] = "have"
     /\ h_before[p] = Undefined
     /\ req[q].user = "U2" /\ req[q].op = "patch" /\ pc[q] = "done"
     /\ At(StoredFor("U2"), RiskFactors) = Arr(<<"X">>)
     /\ At(StoredFor("U2"), LastActive).n > At(StoredFor("U1"), CreatedAt).n

\* result is what the merge of source into target is to give: no exception,
\* and for every key of source that holds a plain object, the object itself
\* where target holds no plain object under the key, the same again one level
\* down where it does.
RECURSIVE WholesaleOrRecursed(_, _, _)
WholesaleOrRecursed(target, source, result) ==
  /\ result # Thrown
  /\ \A k \in Keys(source) :
       IsPlainObject(source.o[k]) =>
         IF IsPlainObject(Get(target, k))
         THEN WholesaleOrRecursed(Get(target, k), source.o[k], Get(result, k))
         ELSE Get(result, k) = source.o[k]

\* C21: whenever updateMemory merges a patch into the record it read, the
\* merge succeeds, and every plain object of the patch that meets an absent
\* value, null, an array or a primitive in the record is in the result as it
\* was supplied; only plain object on plain object is merged key by key.
C21_WholesaleOverNonObject ==
  \A p \in Procs :
     (pc[p] = "have" /\ req[p].op = "patch") =>
       WholesaleOrRecursed(memory[p], req[p].patch,
                           deepMerge(memory[p], req[p].patch))

\* The record holds null under a top-level key or in a field.
HoldsNull(rec) ==
  \/ \E k \in Keys(rec) : rec.o[k] = Null
  \/ \E path \in LeafPaths : At(rec, path) = Null

\* C22: a patch that carries null under a key is answered with the stored
\* record holding null there; a field the patch leaves out, or carries as
\* undefined, keeps its stored value; and while a record holds a null, every
\* get on it and every patch of the record's own shape is answered with a
\* record, not with an error.
C22_NullAssigned ==
  [][\A p \in Procs :
       /\ (req[p].op = "patch" /\ pc[p] # "done" /\ pc'[p] = "done") =>
            /\ \A k \in Keys(req[p].patch) :
                 req[p].patch.o[k] = Null => Get(storage'[DO(p)], k) = Null
            /\ \A path \in LeafPaths :
                 At(req[p].patch, path) = Null
                   => At(storage'[DO(p)], path) = Null
       /\ PutStep(p) =>
            \A path \in LeafPaths \ {LastActive} :
               ~Mentions(req[p].patch, path)
                 => At(storage'[DO(p)], path) = At(storage[DO(p)], path)
       /\ ( /\ pc[p] # "done" /\ pc'[p] = "done"
            /\ HoldsNull(storage[DO(p)])
            /\ (req[p].op = "get" \/ req[p].patch \in Patches) )
          => returned'.body # ErrorResponse]_vars

\* The /chat requests for user u that were answered without an error.
ChatsAnswered(u) ==
  {h \in Procs : /\ hpc[h] = "responded"
                 /\ hreq[h].route = "chat" /\ hreq[h].userId = u
                 /\ hresp[h] # ErrorResponse}

\* C23: when no request to the Worker is in progress, the stored
\* conversation.keyInsights of a user has one entry for each /chat request
\* of that user that was answered: no insight was overwritten by the insight
\* write of a request that had read keyInsights earlier.
C23_InsightPerChat ==
  \A u \in Users :
     ( /\ \A h \in Procs : hpc[h] \in {"none", "responded"}
       /\ StoredFor(u) # Undefined )
     => Len(At(StoredFor(u), KeyInsights).a) = Cardinality(ChatsAnswered(u))

\* Steps of the handler h of a /chat request: the model is invoked; the
\* request that writes keyInsights is sent.
ModelInvoked(h) == hpc[h] = "updateRes" /\ hpc'[h] = "aiRes"
InsightSent(h) == req'[h] # req[h] /\ Mentions(req'[h].patch, KeyInsights)

\* C24: when a /chat handler invokes the model, its request that appends the
\* message to recentQuestions has been written and answered, and the prompt
\* is built from the record that request returned; the request that writes
\* keyInsights is sent only once the model's answer is there, and what it
\* appends to the keyInsights of that record is a prefix of the answer of at
\* most 150 characters.
C24_ChatOrder ==
  [][\A h \in Procs :
       /\ ModelInvoked(h) =>
            /\ pc[h] = "done" /\ req[h].op = "patch" /\ h_persisted[h]
            /\ At(req[h].patch, RecentQuestions).t = "array"
            /\ At(hmem[h], RecentQuestions) = At(req[h].patch, RecentQuestions)
            /\ LET qs == At(hmem[h], RecentQuestions).a
               IN  /\ Len(qs) > 0
                   /\ qs[Len(qs)] = hreq[h].message
                   /\ hai'[h].prompt.recentQuestions = LastThree(Arr(qs))
            /\ hai'[h].prompt.question = hreq[h].message
            /\ hai'[h].prompt.riskFactors = At(hmem[h], RiskFactors)
            /\ hai'[h].prompt.conditions = At(hmem[h], Conditions)
       /\ InsightSent(h) =>
            /\ hpc[h] = "aiRes" /\ hai[h] # Undefined
            /\ LET old == At(hmem[h], KeyInsights).a
                   new == At(req'[h].patch, KeyInsights).a
               IN  /\ Len(new) = Len(old) + 1
                   /\ SubSeq(new, 1, Len(old)) = old
                   /\ Len(new[Len(new)]) <= InsightMax
                   /\ new[Len(new)]
                        = SubSeq(hai[h].response, 1, Len(new[Len(new)]))
                   /\ \/ Len(new[Len(new)]) = Len(hai[h].response)
                      \/ Len(new[Len(new)]) = InsightMax
       /\ (hpc'[h] = "insightRes") => hai'[h] # Undefined]_vars

C24_Witness ==
  \E h \in Procs :
     /\ hpc[h] = "responded" /\ hreq[h].route = "chat"
     /\ hresp[h] # ErrorResponse
     /\ hreq[h].message = "Q2"
     /\ hai[h].prompt.recentQuestions = Arr(<<"Q1", "Q2">>)
     /\ hai[h].response = Text(InsightMax + 1)
     /\ At(StoredFor("U1"), RecentQuestions) = Arr(<<"Q1", "Q2">>)
     /\ Len(At(StoredFor("U1"), KeyInsights).a) = 2
     /\ At(StoredFor("U1"), KeyInsights).a[2] = Text(InsightMax)

\* C25: the request a /risk handler sends to the object writes the supplied
\* riskFactors and conditions, the empty list for one the request leaves
\* out, and stamps lastActive; interests, recentQuestions, keyInsights and
\* createdAt keep their stored values and no key is added or removed.  The
\* only other write made for a /risk request is the creation of a default
\* record for a user that has none.
C25_RiskFrame ==
  [][\A h \in Procs : hpc[h] = "riskRes" =>
       /\ PutStep(h) =>
            /\ At(storage'[DO(h)], RiskFactors)
                 = IF hreq[h].riskFactors.t = "array"
                   THEN hreq[h].riskFactors ELSE Arr(<<>>)
            /\ At(storage'[DO(h)], Conditions)
                 = IF hreq[h].conditions.t = "array"
                   THEN hreq[h].conditions ELSE Arr(<<>>)
            /\ At(storage'[DO(h)], LastActive) = Num(now')
            /\ \A path \in {Interests, RecentQuestions, KeyInsights, CreatedAt} :
                 At(storage'[DO(h)], path) = At(storage[DO(h)], path)
            /\ Keys(storage'[DO(h)]) = Keys(storage[DO(h)])
            /\ \A k \in Keys(storage[DO(h)]) :
                 Keys(storage'[DO(h)].o[k]) = Keys(storage[DO(h)].o[k])
       /\ (pc'[h] # pc[h] /\ storage' # storage) =>
            \/ PutStep(h)
            \/ CreateStep(h) /\ storage[DO(h)] = Undefined
                             /\ IsDefault(storage'[DO(h)])
       /\ \A d \in DOs : d # DO(h) /\ pc'[h] # pc[h] => storage'[d] = storage[d]
    ]_vars

C25_Witness ==
  \E h, g \in Procs :
     /\ hpc[g] = "responded" /\ hreq[g].route = "risk"
     /\ hreq[g].riskFactors = Arr(<<"X">>)
     /\ hpc[h] = "responded" /\ hreq[h].route = "risk"
     /\ hreq[h].riskFactors = Undefined
     /\ hreq[h].conditions = Arr(<<"Y">>)
     /\ At(StoredFor("U1"), RiskFactors) = Arr(<<>>)
     /\ At(StoredFor("U1"), Conditions) = Arr(<<"Y">>)
     /\ At(StoredFor("U1"), CreatedAt) = Num(1)
     /\ At(StoredFor("U1"), LastActive) = Num(2)
     /\ hresp[h] = JSONCopy(Obj([profile |-> Get(StoredFor("U1"), "profile")]))

\* The logAnalytics calls for event e that have returned.
CallsCompleted(e) == {c \in Procs : log[c].pc = "done" /\ log[c].event = e}

\* C26: while no logAnalytics call is in progress, the counter of each event
\* is the number of calls completed for it, and what GET /analytics reports
\* as total is the sum of the two counts it reports.
C26_CounterExact ==
  /\ (\A c \in Procs : log[c].pc \in {"none", "done"})
       => \A e \in Events :
             CountOrZero(kv[CountKey(e)]) = Cardinality(CallsCompleted(e))
  /\ stats.pc = "responded" =>
       LET ev == Get(stats.response, "events")
       IN  Get(ev, "total").n
             = CountOrZero(Get(ev, "chat")) + CountOrZero(Get(ev, "risk_update"))

\* The sendMessage calls whose request is in flight, and all calls in flight.
ChatsInFlight == {c \in Procs : calls[c].pc = "inflight" /\ calls[c].kind = "chat"}
CallsInFlight == {c \in Procs : calls[c].pc = "inflight"}

\* C27: while a chat request started by sendMessage is in flight the send
\* button is disabled and the loading indicator shown; while no request is
\* in flight the button is enabled and the indicator hidden.
C27_BusyWhileInFlight ==
  /\ ChatsInFlight # {} => page.sendBtnDisabled /\ page.loadingShown
  /\ CallsInFlight = {} => ~page.sendBtnDisabled /\ ~page.loadingShown

\* C28: once a session has been reset, the cookie and currentUserId hold the
\* same id, and currentMemory and the two profile displays hold nothing or
\* data of the current session's user, whenever the requests started before
\* the reset complete.
C28_ResetClears ==
  page.currentUserId > 1 =>
    /\ page.cookie = page.currentUserId
    /\ page.currentMemory # Null => page.currentMemory.of = page.currentUserId
    /\ page.riskFactorsDisplay.of \in {0, page.currentUserId}
    /\ page.conditionsDisplay.of \in {0, page.currentUserId}

====
